---- MODULE Spec2Model ----
(***************************************************************************)
(* Job lifecycle of the Farcaster box backend: the in-memory MINT_CACHE,   *)
(* the start-generation pipeline, the status reader and the mint-nft       *)
(* consumer.  Two generations of the server exist in the repository:       *)
(*   variant "index" : src/index.js           (Neynar, Replicate, Thirdweb)*)
(*   variant "mvp"   : src/unnamed/part_000   (mock generator, mock mint)  *)
(* A behaviour runs one of the two.  Every await of a handler is a step    *)
(* boundary; everything between two awaits is one atomic step (Node's      *)
(* single-threaded event loop).  HTTP responses are outputs, not state:    *)
(* they are the ...Response operators, evaluated on the state in which the *)
(* handler runs.                                                           *)
(***************************************************************************)
EXTENDS Integers, Sequences, FiniteSets, TLC

\* ---------------------------------------------------------------- bounds
MaxStarts == 3      \* admitted start-generation calls in one behaviour
MaxMintCalls == 2   \* mint-nft calls that pass the ready check in one behaviour
MaxLiveStarts == 2      \* the same two budgets in the behaviours checked for liveness
MaxLiveMintCalls == 1

\* ------------------------------------------------------- input alphabets
NULL == "<null>"                 \* JS null / undefined
FalsyNullOnly(x) == x = NULL
Falsy(x) == x \in {NULL, ""}     \* what `!x` accepts for the values used here

Keys == {"42", "7"}
FidInputs == Keys \cup {""}
RecipientInputs == {"0xABC", ""}

NeynarReplies == {"throw", "nouser", "", "img://p42"}
ReplicateReplies == {"throw", "empty", "img://gen42"}
ImagePinReplies == {"throw", "Qa"}
MetadataPinReplies == {"throw", "Qb", "Qc"}

\* ------------------------------------------------------------ the state
VARIABLES variant, MINT_CACHE, pipes, mints, sdkInstance, readyWrites, minted
vars == <<variant, MINT_CACHE, pipes, mints, sdkInstance, readyWrites, minted>>

Has(fid) == fid \in DOMAIN MINT_CACHE
Put(fid, rec) == [k \in (DOMAIN MINT_CACHE) \cup {fid} |-> IF k = fid THEN rec ELSE MINT_CACHE[k]]
DeleteAll(fid) == [k \in {} |-> MINT_CACHE[k]]
Delete(fid) == [k \in (DOMAIN MINT_CACHE) \ {fid} |-> MINT_CACHE[k]]

\* ------------------------------------------------------------- records
ProcessingRecord == [status |-> "processing"]

ReadyRecordSwapped(ipfsUri, metadataUri) == [status |-> "ready", metadataUri |-> ipfsUri, ipfsUri |-> metadataUri]
ReadyRecord(ipfsUri, metadataUri) == [status |-> "ready", metadataUri |-> metadataUri, ipfsUri |-> ipfsUri]

ErrorRecordNoMessage(message) == [status |-> "error"]
ErrorRecord(message) == [status |-> "error", message |-> message]

ErrorRecordMvp(message) == [status |-> "error", message |-> IF Falsy(message) THEN "Unknown error" ELSE message]

\* ----------------------------------------------- external collaborators
getPfpUrl(reply) == IF reply \in {"throw", "nouser", ""} THEN NULL ELSE reply

generateBoxCharacter(reply) == IF reply \in {"throw", "empty"} THEN NULL ELSE reply

generateBoxCharacterMvp(fid) == IF Falsy(fid) THEN "picsum://default" ELSE "picsum://seed"

IpfsUri(hash) == IF hash = "Qa" THEN "ipfs://Qa" ELSE IF hash = "Qb" THEN "ipfs://Qb" ELSE "ipfs://Qc"

uploadImageToIpfsNoCatch(imageUrl, reply) == IF Falsy(imageUrl) THEN NULL ELSE IpfsUri(reply)
uploadImageToIpfs(imageUrl, reply) == IF Falsy(imageUrl) THEN NULL ELSE IF reply = "throw" THEN NULL ELSE IpfsUri(reply)

uploadMetadataToIpfs(reply) == IF reply = "throw" THEN NULL ELSE IpfsUri(reply)

StageErrorCopied(stage) == IF stage = "pfp" THEN "No PFP found." ELSE IF stage = "gen" THEN "AI generation failed." ELSE "IPFS failed."
StageError(stage) == IF stage = "pfp" THEN "No PFP found." ELSE IF stage = "gen" THEN "AI generation failed." ELSE IF stage = "img" THEN "IPFS failed." ELSE "Metadata failed."

StageErrorMvp(stage) == IF stage = "img" THEN "IPFS image upload failed." ELSE "IPFS metadata upload failed."

Response(code, body) == [code |-> code, body |-> body]

\* ----------------------------------------------------- pipeline slots
\* one entry per admitted start-generation call: the rest of the handler's
\* async body.  `fresh` remembers whether the key had no record at admission.
\* A finished handler leaves nothing behind but its slot.
NewPipe(fid, pc) == [fid |-> fid, pc |-> pc, ipfsUri |-> NULL, fresh |-> ~Has(fid)]
DonePipe == [fid |-> "", pc |-> "done", ipfsUri |-> NULL, fresh |-> FALSE]
InFlight(p) == pipes[p].pc # "done"

Init ==
    /\ variant \in {"index", "mvp"}
    /\ MINT_CACHE = [k \in {} |-> ProcessingRecord]
    /\ pipes = << >>
    /\ mints = << >>
    /\ sdkInstance = FALSE
    /\ readyWrites = [k \in Keys |-> 0]
    /\ minted = [k \in Keys |-> 0]

\* --------------------------------------------- src/index.js handlers
\* index.js:169, the admission test of start-generation
ShortCircuitsAny(fid) == Has(fid)
ShortCircuitsProcessingOnly(fid) == Has(fid) /\ MINT_CACHE[fid].status = "processing"
ShortCircuits(fid) == Has(fid) /\ MINT_CACHE[fid].status # "error"

\* what POST /api/start-generation answers
StartGenerationResponse(fid) ==
    IF Falsy(fid) THEN Response(400, [error |-> "Missing FID"])
    ELSE IF ShortCircuits(fid) THEN Response(200, [status |-> MINT_CACHE[fid].status])
    ELSE Response(200, [status |-> "processing", message |-> "Generation started."])

\* POST /api/start-generation up to its first await (getPfpUrl's fetch)
StartGeneration(fid) ==
    /\ variant = "index"
    /\ IF Falsy(fid) \/ ShortCircuits(fid)
       THEN UNCHANGED <<MINT_CACHE, pipes>>
       ELSE /\ Len(pipes) < MaxStarts
            /\ MINT_CACHE' = Put(fid, ProcessingRecord)
            /\ pipes' = Append(pipes, NewPipe(fid, "pfp"))
    /\ UNCHANGED <<variant, mints, sdkInstance, readyWrites, minted>>

\* the catch block of the pipeline, index.js:201-204
CatchNoWrite(p, stage) ==
    /\ pipes' = [pipes EXCEPT ![p] = DonePipe]
    /\ UNCHANGED <<MINT_CACHE, readyWrites>>
Catch(p, stage) ==
    /\ MINT_CACHE' = Put(pipes[p].fid, ErrorRecord(StageError(stage)))
    /\ pipes' = [pipes EXCEPT ![p] = DonePipe]
    /\ UNCHANGED readyWrites

\* continuation after `await getPfpUrl(fid)`
PfpResolvedWith(p, reply) ==
    /\ variant = "index"
    /\ p \in DOMAIN pipes
    /\ pipes[p].pc = "pfp"
    /\ LET pfpUrl == getPfpUrl(reply) IN
       IF Falsy(pfpUrl)
       THEN Catch(p, "pfp")
       ELSE /\ pipes' = [pipes EXCEPT ![p].pc = "gen"]
            /\ UNCHANGED <<MINT_CACHE, readyWrites>>
    /\ UNCHANGED <<variant, mints, sdkInstance, minted>>

PfpResolved(p) == \E reply \in NeynarReplies : PfpResolvedWith(p, reply)

\* continuation after `await generateBoxCharacter(pfpUrl)`
GenResolvedWith(p, reply) ==
    /\ variant = "index"
    /\ p \in DOMAIN pipes
    /\ pipes[p].pc = "gen"
    /\ LET aiImage == generateBoxCharacter(reply) IN
       IF Falsy(aiImage)
       THEN Catch(p, "gen")
       ELSE /\ pipes' = [pipes EXCEPT ![p].pc = "img"]
            /\ UNCHANGED <<MINT_CACHE, readyWrites>>
    /\ UNCHANGED <<variant, mints, sdkInstance, minted>>

GenResolved(p) == \E reply \in ReplicateReplies : GenResolvedWith(p, reply)

\* continuation after `await uploadImageToIpfs(aiImage, fid)`
ImageResolvedWith(p, reply) ==
    /\ variant = "index"
    /\ p \in DOMAIN pipes
    /\ pipes[p].pc = "img"
    /\ LET ipfsUri == uploadImageToIpfs(generateBoxCharacter("img://gen42"), reply) IN
       IF Falsy(ipfsUri)
       THEN Catch(p, "img")
       ELSE /\ pipes' = [pipes EXCEPT ![p].pc = "meta", ![p].ipfsUri = ipfsUri]
            /\ UNCHANGED <<MINT_CACHE, readyWrites>>
    /\ UNCHANGED <<variant, mints, sdkInstance, minted>>

ImageResolved(p) == \E reply \in ImagePinReplies : ImageResolvedWith(p, reply)

\* continuation after `await uploadMetadataToIpfs(fid, ipfsUri)` to the end
MetaResolvedWith(p, reply) ==
    /\ variant = "index"
    /\ p \in DOMAIN pipes
    /\ pipes[p].pc = "meta"
    /\ LET metadataUri == uploadMetadataToIpfs(reply) IN
       IF Falsy(metadataUri)
       THEN Catch(p, "meta")
       ELSE /\ MINT_CACHE' = Put(pipes[p].fid, ReadyRecord(pipes[p].ipfsUri, metadataUri))
            /\ pipes' = [pipes EXCEPT ![p] = DonePipe]
            /\ readyWrites' = [readyWrites EXCEPT ![pipes[p].fid] = @ + 1]
    /\ UNCHANGED <<variant, mints, sdkInstance, minted>>

MetaResolved(p) == \E reply \in MetadataPinReplies : MetaResolvedWith(p, reply)

\* index.js:214-218, what GET /api/status answers
StatusResponse(fid) ==
    IF Falsy(fid) \/ ~Has(fid)
    THEN Response(404, [error |-> "No active job."])
    ELSE Response(200, MINT_CACHE[fid])

\* GET /api/status
Status(fid) ==
    /\ variant = "index"
    /\ StatusResponse(fid).code \in {200, 404}
    /\ UNCHANGED <<variant, MINT_CACHE, pipes, mints, sdkInstance, readyWrites, minted>>

\* index.js:234, the ready check of mint-nft
NotReadyAbsentOnly(fid) == ~Has(fid)
NotReady(fid) == ~Has(fid) \/ MINT_CACHE[fid].status # "ready"

\* what POST /api/mint-nft answers before its first await (0: nothing yet)
MintNftResponse(fid, recipient) ==
    IF Falsy(fid) \/ Falsy(recipient) THEN Response(400, [error |-> "Missing parameters."])
    ELSE IF NotReady(fid) THEN Response(409, [error |-> "Not ready to mint."])
    ELSE Response(0, [pending |-> TRUE])

\* one entry per mint-nft call that passed the ready check; `entry` is the
\* record object the handler holds, `sdk` whether getSDK() gave an instance.
\* A finished handler leaves nothing behind but its slot.
NewMint(fid, recipient, sdk) ==
    [fid |-> fid, recipient |-> recipient, pc |-> "sdk", entry |-> MINT_CACHE[fid], sdk |-> sdk]
DoneMint == [fid |-> "", recipient |-> "", pc |-> "done", entry |-> ProcessingRecord, sdk |-> FALSE]

\* POST /api/mint-nft up to its first await; getSDK() runs its body at the call
MintNft(fid, recipient) ==
    /\ variant = "index"
    /\ IF Falsy(fid) \/ Falsy(recipient) \/ NotReady(fid)
       THEN UNCHANGED <<mints, sdkInstance>>
       ELSE /\ Len(mints) < MaxMintCalls
            /\ \E constructed \in BOOLEAN :
                 /\ sdkInstance' = (sdkInstance \/ constructed)
                 /\ mints' = Append(mints, NewMint(fid, recipient, sdkInstance'))
    /\ UNCHANGED <<variant, MINT_CACHE, pipes, readyWrites, minted>>

\* continuation after `await getSDK().catch(() => null)`
SdkResolved(m) ==
    /\ variant = "index"
    /\ m \in DOMAIN mints
    /\ mints[m].pc = "sdk"
    /\ IF ~mints[m].sdk
       THEN mints' = [mints EXCEPT ![m] = DoneMint]
       ELSE mints' = [mints EXCEPT ![m].pc = "contract"]
    /\ UNCHANGED <<variant, MINT_CACHE, pipes, sdkInstance, readyWrites, minted>>

\* continuation after `await sdk.getContract(...)`; on success erc721.mint is invoked
ContractResolvedWith(m, ok) ==
    /\ variant = "index"
    /\ m \in DOMAIN mints
    /\ mints[m].pc = "contract"
    /\ IF ~ok
       THEN mints' = [mints EXCEPT ![m] = DoneMint]
       ELSE mints' = [mints EXCEPT ![m].pc = "mint"]
    /\ UNCHANGED <<variant, MINT_CACHE, pipes, sdkInstance, readyWrites, minted>>

ContractResolved(m) == \E ok \in BOOLEAN : ContractResolvedWith(m, ok)

\* continuation after `await contract.erc721.mint(...)` to the end
MintResolvedDeletesAnyway(m, ok) ==
    /\ variant = "index"
    /\ m \in DOMAIN mints
    /\ mints[m].pc = "mint"
    /\ MINT_CACHE' = Delete(mints[m].fid)
    /\ mints' = [mints EXCEPT ![m] = DoneMint]
    /\ minted' = IF ok THEN [minted EXCEPT ![mints[m].fid] = @ + 1] ELSE minted
    /\ UNCHANGED <<variant, pipes, sdkInstance, readyWrites>>
MintResolvedWith(m, ok) ==
    /\ variant = "index"
    /\ m \in DOMAIN mints
    /\ mints[m].pc = "mint"
    /\ IF ~ok
       THEN /\ mints' = [mints EXCEPT ![m] = DoneMint]
            /\ UNCHANGED <<MINT_CACHE, minted>>
       ELSE /\ MINT_CACHE' = Delete(mints[m].fid)
            /\ mints' = [mints EXCEPT ![m] = DoneMint]
            /\ minted' = [minted EXCEPT ![mints[m].fid] = @ + 1]
    /\ UNCHANGED <<variant, pipes, sdkInstance, readyWrites>>

MintResolved(m) == \E ok \in BOOLEAN : MintResolvedWith(m, ok)

\* ------------------------------------- src/unnamed/part_000 handlers
\* part_000:69, the admission test of start-generation
ShortCircuitsMvp(fid) == Has(fid) /\ MINT_CACHE[fid].status = "ready"

\* what POST /api/start-generation answers
StartGenerationResponseMvp(fid) ==
    IF Falsy(fid) THEN Response(400, [error |-> "Missing FID"])
    ELSE IF ShortCircuitsMvp(fid)
    THEN Response(200, [status |-> "ready", ipfsUri |-> MINT_CACHE[fid].ipfsUri, metadataUri |-> MINT_CACHE[fid].metadataUri])
    ELSE Response(200, [status |-> "processing", message |-> "Generation started."])

\* POST /api/start-generation up to its first await (generateBoxCharacter)
StartGenerationMvp(fid) ==
    /\ variant = "mvp"
    /\ IF Falsy(fid) \/ ShortCircuitsMvp(fid)
       THEN UNCHANGED <<MINT_CACHE, pipes>>
       ELSE /\ Len(pipes) < MaxStarts
            /\ MINT_CACHE' = Put(fid, ProcessingRecord)
            /\ pipes' = Append(pipes, NewPipe(fid, "gen"))
    /\ UNCHANGED <<variant, mints, sdkInstance, readyWrites, minted>>

\* the catch block of the pipeline, part_000:115-121
CatchMvpNoWrite(p, stage) ==
    /\ pipes' = [pipes EXCEPT ![p] = DonePipe]
    /\ UNCHANGED <<MINT_CACHE, readyWrites>>
CatchMvp(p, stage) ==
    /\ MINT_CACHE' = Put(pipes[p].fid, ErrorRecordMvp(StageErrorMvp(stage)))
    /\ pipes' = [pipes EXCEPT ![p] = DonePipe]
    /\ UNCHANGED readyWrites

\* continuation after `await generateBoxCharacter(fid)`
GenResolvedMvp(p) ==
    /\ variant = "mvp"
    /\ p \in DOMAIN pipes
    /\ pipes[p].pc = "gen"
    /\ ~Falsy(generateBoxCharacterMvp(pipes[p].fid))
    /\ pipes' = [pipes EXCEPT ![p].pc = "img"]
    /\ UNCHANGED <<variant, MINT_CACHE, mints, sdkInstance, readyWrites, minted>>

\* continuation after `await uploadImageToIpfs(imageUrl, fid)`
ImageResolvedMvpWith(p, reply) ==
    /\ variant = "mvp"
    /\ p \in DOMAIN pipes
    /\ pipes[p].pc = "img"
    /\ LET ipfsImageUri == uploadImageToIpfs(generateBoxCharacterMvp(pipes[p].fid), reply) IN
       IF Falsy(ipfsImageUri)
       THEN CatchMvp(p, "img")
       ELSE /\ pipes' = [pipes EXCEPT ![p].pc = "meta", ![p].ipfsUri = ipfsImageUri]
            /\ UNCHANGED <<MINT_CACHE, readyWrites>>
    /\ UNCHANGED <<variant, mints, sdkInstance, minted>>

ImageResolvedMvp(p) == \E reply \in ImagePinReplies : ImageResolvedMvpWith(p, reply)

\* continuation after `await uploadMetadataToIpfs(fid, ipfsImageUri)` to the end
MetaResolvedMvpWith(p, reply) ==
    /\ variant = "mvp"
    /\ p \in DOMAIN pipes
    /\ pipes[p].pc = "meta"
    /\ LET metadataUri == uploadMetadataToIpfs(reply) IN
       IF Falsy(metadataUri)
       THEN CatchMvp(p, "meta")
       ELSE /\ MINT_CACHE' = Put(pipes[p].fid, ReadyRecord(pipes[p].ipfsUri, metadataUri))
            /\ pipes' = [pipes EXCEPT ![p] = DonePipe]
            /\ readyWrites' = [readyWrites EXCEPT ![pipes[p].fid] = @ + 1]
    /\ UNCHANGED <<variant, mints, sdkInstance, minted>>

MetaResolvedMvp(p) == \E reply \in MetadataPinReplies : MetaResolvedMvpWith(p, reply)

\* GET /api/status, part_000:127-135 (same text as index.js)
StatusMvp(fid) ==
    /\ variant = "mvp"
    /\ StatusResponse(fid).code \in {200, 404}
    /\ UNCHANGED <<variant, MINT_CACHE, pipes, mints, sdkInstance, readyWrites, minted>>

\* part_000:156, the ready check of the mock mint
NotReadyMvp(fid) == ~Has(fid) \/ MINT_CACHE[fid].status # "ready"

\* what the mock POST /api/mint-nft answers
MintNftResponseMvp(fid, recipient) ==
    IF Falsy(fid) \/ Falsy(recipient) THEN Response(400, [success |-> FALSE])
    ELSE IF NotReadyMvp(fid) THEN Response(409, [success |-> FALSE])
    ELSE Response(200, [success |-> TRUE])

\* POST /api/mint-nft of the mock server: no await, one step
MintNftMvp(fid, recipient) ==
    /\ variant = "mvp"
    /\ IF Falsy(fid) \/ Falsy(recipient) \/ NotReadyMvp(fid)
       THEN UNCHANGED <<MINT_CACHE, mints, minted>>
       ELSE /\ Len(mints) < MaxMintCalls
            /\ MINT_CACHE' = Delete(fid)
            /\ mints' = Append(mints, DoneMint)
            /\ minted' = [minted EXCEPT ![fid] = @ + 1]
    /\ UNCHANGED <<variant, pipes, sdkInstance, readyWrites>>

\* ------------------------------------------------------ specification
Slots == 1..MaxStarts
MintSlots == 1..MaxMintCalls

PipelineStep(p) ==
    \/ PfpResolved(p)
    \/ GenResolved(p)
    \/ ImageResolved(p)
    \/ MetaResolved(p)
    \/ GenResolvedMvp(p)
    \/ ImageResolvedMvp(p)
    \/ MetaResolvedMvp(p)

Next ==
    \/ \E fid \in FidInputs : StartGeneration(fid)
    \/ \E p \in Slots : PfpResolved(p)
    \/ \E p \in Slots : GenResolved(p)
    \/ \E p \in Slots : ImageResolved(p)
    \/ \E p \in Slots : MetaResolved(p)
    \/ \E fid \in FidInputs : Status(fid)
    \/ \E fid \in FidInputs, recipient \in RecipientInputs : MintNft(fid, recipient)
    \/ \E m \in MintSlots : SdkResolved(m)
    \/ \E m \in MintSlots : ContractResolved(m)
    \/ \E m \in MintSlots : MintResolved(m)
    \/ \E fid \in FidInputs : StartGenerationMvp(fid)
    \/ \E p \in Slots : GenResolvedMvp(p)
    \/ \E p \in Slots : ImageResolvedMvp(p)
    \/ \E p \in Slots : MetaResolvedMvp(p)
    \/ \E fid \in FidInputs : StatusMvp(fid)
    \/ \E fid \in FidInputs, recipient \in RecipientInputs : MintNftMvp(fid, recipient)

Spec == Init /\ [][Next]_vars

\* src/index.js alone, on behaviours of at most MaxLiveStarts admitted starts
\* and MaxLiveMintCalls accepted mint calls, with every pending await of a
\* pipeline eventually resolved (each collaborator call returns or throws)
InitIndex == Init /\ variant = "index"

NextIndex ==
    \/ \E fid \in FidInputs : StartGeneration(fid) /\ Len(pipes') <= MaxLiveStarts
    \/ \E p \in Slots : PfpResolved(p)
    \/ \E p \in Slots : GenResolved(p)
    \/ \E p \in Slots : ImageResolved(p)
    \/ \E p \in Slots : MetaResolved(p)
    \/ \E fid \in FidInputs : Status(fid)
    \/ \E fid \in FidInputs, recipient \in RecipientInputs : MintNft(fid, recipient) /\ Len(mints') <= MaxLiveMintCalls
    \/ \E m \in MintSlots : SdkResolved(m)
    \/ \E m \in MintSlots : ContractResolved(m)
    \/ \E m \in MintSlots : MintResolved(m)

FairSpec == InitIndex /\ [][NextIndex]_vars /\ \A p \in Slots : WF_vars(PipelineStep(p))

\* both servers, on behaviours of at most MaxLiveStarts admitted starts and
\* MaxLiveMintCalls accepted mint calls, with every pending await of a
\* pipeline eventually resolved
NextLive ==
    \/ \E fid \in FidInputs : StartGeneration(fid) /\ Len(pipes') <= MaxLiveStarts
    \/ \E p \in Slots : PfpResolved(p)
    \/ \E p \in Slots : GenResolved(p)
    \/ \E p \in Slots : ImageResolved(p)
    \/ \E p \in Slots : MetaResolved(p)
    \/ \E fid \in FidInputs : Status(fid)
    \/ \E fid \in FidInputs, recipient \in RecipientInputs : MintNft(fid, recipient) /\ Len(mints') <= MaxLiveMintCalls
    \/ \E m \in MintSlots : SdkResolved(m)
    \/ \E m \in MintSlots : ContractResolved(m)
    \/ \E m \in MintSlots : MintResolved(m)
    \/ \E fid \in FidInputs : StartGenerationMvp(fid) /\ Len(pipes') <= MaxLiveStarts
    \/ \E p \in Slots : GenResolvedMvp(p)
    \/ \E p \in Slots : ImageResolvedMvp(p)
    \/ \E p \in Slots : MetaResolvedMvp(p)
    \/ \E fid \in FidInputs : StatusMvp(fid)
    \/ \E fid \in FidInputs, recipient \in RecipientInputs : MintNftMvp(fid, recipient) /\ Len(mints') <= MaxLiveMintCalls

FairSpecBoth == Init /\ [][NextLive]_vars /\ \A p \in Slots : WF_vars(PipelineStep(p))

\* ------------------------------------------------------------ claims
Statuses == {"processing", "ready", "error"}
Recipients == RecipientInputs \ {""}
InFlightFor(k) == {p \in DOMAIN pipes : InFlight(p) /\ pipes[p].fid = k}
IsStatus(k, st) == Has(k) /\ MINT_CACHE[k].status = st
NotReadyState(k) == ~Has(k) \/ MINT_CACHE[k].status \in {"processing", "error"}

\* C1: in src/index.js at most one generation pipeline is in flight for a
\* key in every reachable state.
C1_OnePipelinePerKey ==
    variant = "index" => \A k \in Keys : Cardinality(InFlightFor(k)) <= 1

\* C2: in src/index.js the number of successful mints of a key never
\* exceeds the number of Ready records written for that key.
C2_ConsumeOnce ==
    variant = "index" => \A k \in Keys : minted[k] <= readyWrites[k]

\* C3: in src/unnamed/part_000 a start-generation call for a key whose
\* record is Processing answers the current status, leaves the cache as it
\* is and starts no pipeline.
C3_ProcessingDedupes ==
    [][\A k \in Keys :
         (variant = "mvp" /\ IsStatus(k, "processing") /\ StartGenerationMvp(k))
         => /\ StartGenerationResponseMvp(k).body.status = "processing"
            /\ MINT_CACHE' = MINT_CACHE
            /\ pipes' = pipes]_vars

\* C4: in src/unnamed/part_000, once a key has been minted its record stays
\* absent until a new start-generation call for the key is admitted.
C4_AbsentUntilNewStart ==
    [][\A k \in Keys :
         (variant = "mvp" /\ minted[k] > 0 /\ ~Has(k) /\ k \in DOMAIN MINT_CACHE')
         => StartGenerationMvp(k)]_vars

\* C5: in src/index.js a start-generation call for a key without a record
\* answers Processing, and while the pipeline it started is in flight the
\* status call for that key answers the Processing record.
C5_ProcessingUntilCompletion ==
    variant = "index" =>
        /\ \A k \in Keys : ~Has(k) => StartGenerationResponse(k).body.status = "processing"
        /\ \A p \in DOMAIN pipes :
             (InFlight(p) /\ pipes[p].fresh) => StatusResponse(pipes[p].fid) = Response(200, [status |-> "processing"])

\* C6: in src/unnamed/part_000 a Ready record only ever changes by being
\* removed by a successful mint-nft call.
C6_ReadyIsStable ==
    [][\A k \in Keys :
         (variant = "mvp" /\ IsStatus(k, "ready"))
         => \/ (k \in DOMAIN MINT_CACHE' /\ MINT_CACHE'[k] = MINT_CACHE[k])
            \/ (k \notin DOMAIN MINT_CACHE' /\ \E r \in Recipients : MintNftMvp(k, r))]_vars

\* C7: every stored record has imageUri and metadataUri exactly when it is
\* Ready and a non-empty message exactly when it is Error; a Processing
\* record carries none of the three (both variants).
C7_RecordShape ==
    \A k \in DOMAIN MINT_CACHE :
        LET rec == MINT_CACHE[k] IN
        /\ rec.status \in Statuses
        /\ (rec.status = "ready") <=> ("ipfsUri" \in DOMAIN rec /\ "metadataUri" \in DOMAIN rec)
        /\ (rec.status = "ready") <=> ("ipfsUri" \in DOMAIN rec \/ "metadataUri" \in DOMAIN rec)
        /\ rec.status = "ready" => ~Falsy(rec.ipfsUri) /\ ~Falsy(rec.metadataUri)
        /\ (rec.status = "error") <=> ("message" \in DOMAIN rec)
        /\ rec.status = "error" => ~Falsy(rec.message)
        /\ rec.status = "processing" => DOMAIN rec = {"status"}

\* a Ready record of one key next to an Error record of another
C7_Witness ==
    \E k1, k2 \in DOMAIN MINT_CACHE :
        /\ MINT_CACHE[k1].status = "ready"
        /\ MINT_CACHE[k2].status = "error"
        /\ \E p \in DOMAIN pipes : InFlight(p)

\* every admitted pipeline of src/index.js reaches the end of its handler
Terminates(p) == (variant = "index" /\ p \in DOMAIN pipes /\ InFlight(p)) ~> (p \in DOMAIN pipes /\ ~InFlight(p))

\* the URI the pinning service's reply stands for
PinnedAs(reply) == CASE reply = "Qa" -> "ipfs://Qa" [] reply = "Qb" -> "ipfs://Qb" [] reply = "Qc" -> "ipfs://Qc"

\* C8: in src/index.js, under fairness of the pipeline steps, an admitted
\* pipeline whose four stages succeed ends, and ends by leaving in the cache
\* the Ready record made of the image pin's URI and the metadata pin's URI.
C8_SuccessBecomesReady ==
    /\ \A p \in Slots : Terminates(p)
    /\ [][\A p \in Slots :
            /\ \A reply \in ImagePinReplies \ {"throw"} :
                 ImageResolvedWith(p, reply) => pipes'[p].pc = "meta" /\ pipes'[p].ipfsUri = PinnedAs(reply)
            /\ \A reply \in MetadataPinReplies \ {"throw"} :
                 MetaResolvedWith(p, reply)
                 => /\ pipes'[p].pc = "done"
                    /\ pipes[p].fid \in DOMAIN MINT_CACHE'
                    /\ MINT_CACHE'[pipes[p].fid] =
                         [status |-> "ready", ipfsUri |-> pipes[p].ipfsUri, metadataUri |-> PinnedAs(reply)]]_vars

\* a finished pipeline of src/index.js has left a Ready record with the two pinned URIs
C8_Witness ==
    /\ variant = "index"
    /\ \E k \in Keys :
         /\ readyWrites[k] = 1
         /\ Has(k)
         /\ MINT_CACHE[k] = [status |-> "ready", ipfsUri |-> "ipfs://Qa", metadataUri |-> "ipfs://Qc"]
         /\ InFlightFor(k) = {}

\* the replies with which a stage fails
FailingReplies(stage) ==
    CASE stage = "pfp" -> {"throw", "nouser", ""}
      [] stage = "gen" -> {"throw", "empty"}
      [] stage = "img" -> {"throw"}
      [] stage = "meta" -> {"throw"}

ExpectedMessage(stage) ==
    CASE stage = "pfp" -> "No PFP found."
      [] stage = "gen" -> "AI generation failed."
      [] stage = "img" -> "IPFS failed."
      [] stage = "meta" -> "Metadata failed."

StageResolvedWith(stage, p, reply) ==
    CASE stage = "pfp" -> PfpResolvedWith(p, reply)
      [] stage = "gen" -> GenResolvedWith(p, reply)
      [] stage = "img" -> ImageResolvedWith(p, reply)
      [] stage = "meta" -> MetaResolvedWith(p, reply)

\* C9: in src/index.js, under fairness of the pipeline steps, an admitted
\* pipeline ends, and when a stage fails it ends at that stage by leaving in
\* the cache an Error record made of the status and that stage's message only.
C9_FailureBecomesError ==
    /\ \A p \in Slots : Terminates(p)
    /\ [][\A p \in Slots : \A stage \in {"pfp", "gen", "img", "meta"} : \A reply \in FailingReplies(stage) :
            StageResolvedWith(stage, p, reply)
            => /\ pipes'[p].pc = "done"
               /\ pipes[p].fid \in DOMAIN MINT_CACHE'
               /\ MINT_CACHE'[pipes[p].fid] = [status |-> "error", message |-> ExpectedMessage(stage)]]_vars

\* a pipeline of src/index.js has failed at the metadata pin, after the image pin succeeded
C9_Witness ==
    /\ variant = "index"
    /\ \E k \in Keys :
         /\ Has(k)
         /\ MINT_CACHE[k] = [status |-> "error", message |-> "Metadata failed."]
         /\ readyWrites[k] = 0
         /\ InFlightFor(k) = {}

\* C10: a mint-nft call for a key whose record is absent, Processing or
\* Error answers 409, starts no mint and leaves the cache unchanged (both
\* variants).
C10_NotReadyRejected ==
    /\ [](\A k \in Keys : \A r \in Recipients :
            NotReadyState(k)
            => /\ variant = "index" => MintNftResponse(k, r).code = 409
               /\ variant = "mvp" => MintNftResponseMvp(k, r).code = 409)
    /\ [][\A k \in Keys : \A r \in Recipients :
            (NotReadyState(k) /\ (MintNft(k, r) \/ MintNftMvp(k, r)))
            => /\ MINT_CACHE' = MINT_CACHE
               /\ mints' = mints
               /\ minted' = minted]_vars

\* a mint-nft call can arrive while one key is in Error and another Processing
C10_Witness ==
    /\ Len(mints) < MaxMintCalls
    /\ \E k1, k2 \in Keys :
         /\ IsStatus(k1, "error")
         /\ IsStatus(k2, "processing")
         /\ MintNftResponse(k1, "0xABC").code = 409
         /\ MintNftResponseMvp(k2, "0xABC").code = 409
\* C11: in src/index.js a mint-nft call whose SDK initialisation, contract
\* lookup or mint fails ends without any write or delete on the cache and
\* without counting as a mint, so the record it read stays as it is.
C11_FailedMintLeavesRecord ==
    [][\A m \in MintSlots :
         \/ (m \in DOMAIN mints /\ ~mints[m].sdk /\ SdkResolved(m))
         \/ ContractResolvedWith(m, FALSE)
         \/ MintResolvedWith(m, FALSE)
         => /\ MINT_CACHE' = MINT_CACHE
            /\ minted' = minted
            /\ pipes' = pipes
            /\ m \in DOMAIN mints' /\ mints'[m].pc = "done"]_vars

\* a mint-nft call of src/index.js has ended without minting, the record is
\* still Ready and a further mint-nft call for the key would be accepted
C11_Witness ==
    /\ variant = "index"
    /\ \E m \in DOMAIN mints : mints[m].pc = "done"
    /\ \A k \in Keys : minted[k] = 0
    /\ \A m \in DOMAIN mints : mints[m].pc = "done"
    /\ Len(mints) < MaxMintCalls
    /\ \E k \in Keys : IsStatus(k, "ready") /\ MintNftResponse(k, "0xABC").code = 0
\* C12: in src/index.js an Error record is removed or changed only by an
\* admitted start-generation call for its key.
C12_ErrorPersists ==
    [][\A k \in Keys :
         (variant = "index" /\ IsStatus(k, "error"))
         => \/ (k \in DOMAIN MINT_CACHE' /\ MINT_CACHE'[k] = MINT_CACHE[k])
            \/ StartGeneration(k)]_vars
\* C13 as stated: in src/index.js the answer to a start-generation call for
\* a key whose record is Ready is the Ready payload, status together with
\* the stored imageUri and metadataUri.
C13_AnswersReadyPayload ==
    \A k \in Keys :
        (variant = "index" /\ IsStatus(k, "ready"))
        => StartGenerationResponse(k) =
             Response(200, [status |-> "ready", ipfsUri |-> MINT_CACHE[k].ipfsUri, metadataUri |-> MINT_CACHE[k].metadataUri])

\* C13: in src/index.js a start-generation call for a key whose record is
\* Ready leaves the record unchanged and starts no pipeline, and its answer
\* is the status Ready alone; the stored URIs are not part of it.
C13_ReadyShortCircuits ==
    /\ [](\A k \in Keys :
            (variant = "index" /\ IsStatus(k, "ready"))
            => StartGenerationResponse(k) = Response(200, [status |-> "ready"]))
    /\ [][\A k \in Keys :
            (variant = "index" /\ IsStatus(k, "ready") /\ StartGeneration(k))
            => /\ MINT_CACHE' = MINT_CACHE
               /\ pipes' = pipes]_vars

\* a start-generation call of src/index.js can arrive for a Ready key while
\* the budget of admissions is not used up
C13_Witness ==
    /\ variant = "index"
    /\ Len(pipes) < MaxStarts
    /\ \E k \in Keys : IsStatus(k, "ready") /\ ShortCircuits(k) /\ ENABLED StartGeneration(k)
ErrorMessages ==
    {StageError(stage) : stage \in {"pfp", "gen", "img", "meta"}}
      \cup {StageErrorMvp(stage) : stage \in {"img", "meta"}}

\* the record a finished pipeline leaves: Ready with both URIs, or Error
\* with the message of the stage that failed
FinalRecord(rec) ==
    \/ rec.status = "ready" /\ DOMAIN rec = {"status", "ipfsUri", "metadataUri"}
    \/ rec.status = "error" /\ DOMAIN rec = {"status", "message"} /\ rec.message \in ErrorMessages

\* this step stores a Ready or Error record for k that was not there before
WritesFinal(k) ==
    /\ k \in DOMAIN MINT_CACHE'
    /\ MINT_CACHE'[k].status \in {"ready", "error"}
    /\ ~(Has(k) /\ MINT_CACHE[k] = MINT_CACHE'[k])

\* C14: a step of an admitted pipeline (both variants) either leaves the
\* pipeline in flight and the cache untouched, or ends it with its key's
\* record set to a Ready or an Error record; a finished pipeline never
\* steps again, and every Ready or Error record that appears in the cache
\* is stored by the step that ends exactly one pipeline of that key.
C14_OneWritePerPipeline ==
    [][/\ \A p \in DOMAIN pipes :
            IF ~InFlight(p)
            THEN pipes'[p] = pipes[p]
            ELSE pipes'[p] # pipes[p]
                 => IF pipes'[p].pc # "done"
                    THEN MINT_CACHE' = MINT_CACHE
                    ELSE /\ pipes[p].fid \in DOMAIN MINT_CACHE'
                         /\ FinalRecord(MINT_CACHE'[pipes[p].fid])
                         /\ \A k \in DOMAIN MINT_CACHE' \ {pipes[p].fid} :
                              Has(k) /\ MINT_CACHE'[k] = MINT_CACHE[k]
       /\ \A k \in Keys :
            WritesFinal(k)
            => Cardinality({p \in InFlightFor(k) : pipes'[p].pc = "done"}) = 1]_vars

\* both ways of finishing have happened in one run: a key holds a Ready
\* record and another an Error record while every pipeline has finished
C14_Witness ==
    /\ Len(pipes) >= 2
    /\ \A p \in DOMAIN pipes : ~InFlight(p)
    /\ \E k \in Keys : IsStatus(k, "ready")
    /\ \E k \in Keys : IsStatus(k, "error")
Stages == <<"pfp", "gen", "img", "meta">>

\* the position that follows a stage in the handler's text, index.js:181-190
StageAfter(pc) ==
    CASE pc = "pfp" -> "gen"
      [] pc = "gen" -> "img"
      [] pc = "img" -> "meta"
      [] pc = "meta" -> "done"

RepliesOf(stage) ==
    CASE stage = "pfp" -> NeynarReplies
      [] stage = "gen" -> ReplicateReplies
      [] stage = "img" -> ImagePinReplies
      [] stage = "meta" -> MetadataPinReplies

\* C15: in src/index.js a pipeline starts at the profile-image stage and its
\* stages follow one another in the order profile image, generation, image
\* pin, metadata pin: a stage whose result is non-empty hands over to the
\* next stage and to no other, a stage whose result is empty ends the
\* pipeline, and an ended pipeline runs no stage.
C15_StagesInOrder ==
    [][variant = "index" =>
        /\ \A p \in DOMAIN pipes' \ DOMAIN pipes : pipes'[p].pc = Stages[1]
        /\ \A p \in DOMAIN pipes :
             pipes'[p].pc # pipes[p].pc
             => InFlight(p) /\ pipes'[p].pc \in {StageAfter(pipes[p].pc), "done"}
        /\ \A p \in DOMAIN pipes :
             \/ pipes'[p] = pipes[p]
             \/ \A reply \in RepliesOf(pipes[p].pc) :
                  \/ ~StageResolvedWith(pipes[p].pc, p, reply)
                  \/ pipes'[p].pc = IF reply \in FailingReplies(pipes[p].pc) THEN "done" ELSE StageAfter(pipes[p].pc)]_vars

\* one pipeline of src/index.js has passed three stages and waits for the
\* metadata pin, another was cut short at the generation stage
C15_Witness ==
    /\ variant = "index"
    /\ \E p \in DOMAIN pipes : pipes[p].pc = "meta" /\ pipes[p].ipfsUri = "ipfs://Qa"
    /\ \E k \in Keys : IsStatus(k, "error") /\ MINT_CACHE[k].message = "AI generation failed."
\* C16: a start-generation call for a key whose record is Error is admitted
\* in both variants: the answer is Processing, the record becomes a
\* Processing record that no longer has the message, every other record
\* stays, and exactly one pipeline, for that key and at its first stage, is
\* added to the pipelines there were.
C16_ErrorIsRetried ==
    /\ [](\A k \in Keys :
            IsStatus(k, "error")
            => /\ variant = "index" => StartGenerationResponse(k).body.status = "processing"
               /\ variant = "mvp" => StartGenerationResponseMvp(k).body.status = "processing")
    /\ [][\A k \in Keys :
            (IsStatus(k, "error") /\ (StartGeneration(k) \/ StartGenerationMvp(k)))
            => /\ DOMAIN MINT_CACHE' = DOMAIN MINT_CACHE
               /\ MINT_CACHE'[k] = [status |-> "processing"]
               /\ \A k2 \in DOMAIN MINT_CACHE \ {k} : MINT_CACHE'[k2] = MINT_CACHE[k2]
               /\ Len(pipes') = Len(pipes) + 1
               /\ SubSeq(pipes', 1, Len(pipes)) = pipes
               /\ pipes'[Len(pipes')].fid = k
               /\ pipes'[Len(pipes')].pc = (IF variant = "index" THEN "pfp" ELSE "gen")]_vars

\* a retry has been admitted by src/index.js: the key's failed pipeline
\* has ended, its record is Processing again and a second pipeline runs
C16_Witness ==
    /\ variant = "index"
    /\ \E k \in Keys :
         /\ IsStatus(k, "processing")
         /\ \E p \in DOMAIN pipes : ~InFlight(p)
         /\ \E p \in DOMAIN pipes : pipes[p].fid = k /\ InFlight(p) /\ ~pipes[p].fresh
         /\ readyWrites[k] = 0
         /\ \A k2 \in Keys \ {k} : ~Has(k2)
         /\ Cardinality(InFlightFor(k)) = 1
\* C17: in both variants a status call for any key, a start-generation call
\* with an empty key and a mint-nft call with an empty key or an empty
\* recipient are answered 200/404, 400 and 400, and they leave every record
\* unchanged and start no pipeline and no mint.
C17_RejectedCallsChangeNothing ==
    /\ [](/\ \A fid \in FidInputs : StatusResponse(fid).code = (IF fid \in DOMAIN MINT_CACHE THEN 200 ELSE 404)
          /\ StartGenerationResponse("").code = 400
          /\ StartGenerationResponseMvp("").code = 400
          /\ \A fid \in FidInputs, recipient \in RecipientInputs :
               ("" \in {fid, recipient})
               => MintNftResponse(fid, recipient).code = 400 /\ MintNftResponseMvp(fid, recipient).code = 400)
    /\ [][(\/ \E fid \in FidInputs : Status(fid) \/ StatusMvp(fid)
           \/ StartGeneration("") \/ StartGenerationMvp("")
           \/ \E fid \in FidInputs, recipient \in RecipientInputs :
                "" \in {fid, recipient} /\ (MintNft(fid, recipient) \/ MintNftMvp(fid, recipient)))
          => /\ MINT_CACHE' = MINT_CACHE
             /\ pipes' = pipes
             /\ mints' = mints
             /\ minted' = minted]_vars

\* rejected and read-only calls can arrive while there is something to
\* change: a Ready record that a mint-nft call with a recipient would
\* consume, and budget left for a start and for a mint
C17_Witness ==
    /\ Len(pipes) < MaxStarts
    /\ Len(mints) < MaxMintCalls
    /\ \E k \in Keys :
         /\ IsStatus(k, "ready")
         /\ StatusResponse(k).code = 200
         /\ MintNftResponse(k, "").code = 400
         /\ MintNftResponse(k, "0xABC").code = 0
    /\ \E k \in Keys : ~Has(k) /\ StatusResponse(k).code = 404
\* C18: in src/index.js the delete of a successful mint-nft call removes
\* nothing but a Ready record whose metadataUri is the one the call minted.
C18_DeleteRemovesOwnRecord ==
    [][\A m \in MintSlots :
         (MintResolvedWith(m, TRUE) /\ Has(mints[m].fid))
         => /\ MINT_CACHE[mints[m].fid].status = "ready"
            /\ MINT_CACHE[mints[m].fid].metadataUri = mints[m].entry.metadataUri]_vars
\* C19: in both variants a Processing record always has a pipeline of its
\* key in flight, and under fairness of the pipeline steps every Processing
\* record is eventually replaced by a Ready or Error record or removed.
C19_ProcessingEnds ==
    /\ [](\A k \in Keys : IsStatus(k, "processing") => InFlightFor(k) # {})
    /\ \A k \in Keys : IsStatus(k, "processing") ~> ~IsStatus(k, "processing")

\* in the mock server a pipeline waits for its last stage under a Processing
\* record while another key's record has already turned from Processing
\* into Error
C19_Witness ==
    /\ variant = "mvp"
    /\ \E k \in Keys :
         /\ IsStatus(k, "processing")
         /\ \E p \in InFlightFor(k) : pipes[p].pc = "meta"
    /\ \E k \in Keys : IsStatus(k, "error") /\ InFlightFor(k) = {}
\* the step leaves key k as it was: absent, or present with the same record
SameRecord(k) ==
    /\ (k \in DOMAIN MINT_CACHE') = Has(k)
    /\ Has(k) => MINT_CACHE'[k] = MINT_CACHE[k]

\* the step is a call for key k or a continuation of a handler of key k
StepFor(k) ==
    \/ StartGeneration(k) \/ StartGenerationMvp(k)
    \/ Status(k) \/ StatusMvp(k)
    \/ \E recipient \in RecipientInputs : MintNft(k, recipient) \/ MintNftMvp(k, recipient)
    \/ \E p \in DOMAIN pipes : pipes[p].fid = k /\ PipelineStep(p)
    \/ \E m \in DOMAIN mints :
         mints[m].fid = k /\ (SdkResolved(m) \/ ContractResolved(m) \/ MintResolved(m))

\* C20: in both variants a start-generation, pipeline, status or mint-nft
\* step for key k leaves the record of every other key as it was, present
\* with the same value or absent.
C20_KeysIsolated ==
    [][\A k \in Keys : \A k2 \in Keys \ {k} : SameRecord(k2) \/ ~StepFor(k)]_vars

\* src/index.js has minted and deleted one key while the other key still
\* holds its Ready record
C20_Witness ==
    /\ variant = "index"
    /\ \E k \in Keys :
         /\ minted[k] = 1
         /\ ~Has(k)
         /\ \E k2 \in Keys \ {k} : IsStatus(k2, "ready") /\ minted[k2] = 0
====
